---- MODULE Spec2Model ----
(***************************************************************************)
(* Model of two scripts of the repository:                                 *)
(*   .evergreen/get_latest_swift_patch.py  (the release-tag resolver)      *)
(*   _scripts/update-index.py              (the documentation index)       *)
(*                                                                         *)
(* A Python str is modelled as a sequence of one-character strings, so     *)
(* that slicing, splitting, concatenation and comparison are computed and  *)
(* not assumed.  The characters used are ASCII letters, digits, '-', '.',  *)
(* '_' and '|'; of these only '|' (and the '.' the script escapes itself)  *)
(* has a meaning of its own inside a regular expression.                   *)
(***************************************************************************)
EXTENDS Integers, Sequences, FiniteSets, TLC

VARIABLES
    argv,            \* sys.argv; argv[1] is the script name (Python argv[0])
    pc,              \* position of the resolver in its module body
    version,         \* line 16
    version_regex,   \* line 31
    requests,        \* URLs passed to requests.get so far, in order
    tag_data,        \* line 19: the decoded JSON array of /tags
    release_data,    \* line 33: the decoded JSON array of /releases
    matches,         \* line 37: what the filter object has yet to yield
    sorted_matches,  \* line 40
    stdout,          \* lines printed, one per print() call
    exception,       \* uncaught exception that ended the run, "" if none
    exit_status,     \* <<>> while running, <<code>> once the process ended
    docs,            \* update-index.py: the names of the entries of ./docs
    dirs,            \* update-index.py: the sorted list the loop iterates
    pos,             \* update-index.py: index of the next element of dirs
    first,           \* update-index.py: line 3
    index_md,        \* update-index.py: lines written to ./docs/index.md
    ipc              \* position of update-index.py in its module body

vars == <<argv, pc, version, version_regex, requests, tag_data, release_data,
          matches, sorted_matches, stdout, exception, exit_status,
          docs, dirs, pos, first, index_md, ipc>>

resolverVars == <<argv, pc, version, version_regex, requests, tag_data,
                  release_data, matches, sorted_matches, stdout, exception,
                  exit_status>>

indexVars == <<docs, dirs, pos, first, index_md, ipc>>

---------------------------------------------------------------------------
(* Bounds of the model *)

\* longest JSON array the tag-listing endpoint returns
MaxTags == 3

\* longest JSON array the release-listing endpoint returns
MaxReleases == 3

\* most version directories present in ./docs
MaxDocs == 3

---------------------------------------------------------------------------
(* String literals of the scripts *)

\* 'main-snapshot'
MainSnapshot ==
    <<"m", "a", "i", "n", "-", "s", "n", "a", "p", "s", "h", "o", "t">>

\* 'swift-DEVELOPMENT-SNAPSHOT'
SnapshotMarker ==
    <<"s", "w", "i", "f", "t", "-", "D", "E", "V", "E", "L", "O", "P", "M",
      "E", "N", "T", "-", "S", "N", "A", "P", "S", "H", "O", "T">>

\* '^swift-(' : the part of the pattern before the first format field
RegexHead ==
    <<"^", "s", "w", "i", "f", "t", "-", "(">>

\* '\.' : the part of the pattern between the two format fields
RegexSep ==
    <<"\\", ".">>

\* '(\.(\d+))?)-RELEASE$' : the part of the pattern after the second field
RegexTail ==
    <<"(", "\\", ".", "(", "\\", "d", "+", ")", ")", "?", ")", "-", "R", "E",
      "L", "E", "A", "S", "E", "$">>

\* 'swift-' : what RegexHead matches literally
SwiftDash ==
    <<"s", "w", "i", "f", "t", "-">>

\* '-RELEASE' : what the end of RegexTail matches literally
DashRelease ==
    <<"-", "R", "E", "L", "E", "A", "S", "E">>

\* 'Expected 1 argument, but got: '
ArgcMessage ==
    <<"E", "x", "p", "e", "c", "t", "e", "d", " ", "1", " ", "a", "r", "g",
      "u", "m", "e", "n", "t", ",", " ", "b", "u", "t", " ", "g", "o", "t",
      ":", " ">>

\* 'Expected version number in form x.y, got '
FormMessage ==
    <<"E", "x", "p", "e", "c", "t", "e", "d", " ", "v", "e", "r", "s", "i",
      "o", "n", " ", "n", "u", "m", "b", "e", "r", " ", "i", "n", " ", "f",
      "o", "r", "m", " ", "x", ".", "y", ",", " ", "g", "o", "t", " ">>

\* the two URLs the resolver reads
TagsUrl == "https://api.github.com/repos/apple/swift/tags"

ReleasesUrl == "https://api.github.com/repos/apple/swift/releases"

\* Python's None, where a str could stand instead
None == <<"None">>

---------------------------------------------------------------------------
(* Python string operations *)

Digits == {"0", "1", "2", "3", "4", "5", "6", "7", "8", "9"}

\* s.startswith(p)
StartsWith(s, p) ==
    Len(p) <= Len(s) /\ SubSeq(s, 1, Len(p)) = p

\* s.endswith(p)
EndsWith(s, p) ==
    Len(p) <= Len(s) /\ SubSeq(s, Len(s) - Len(p) + 1, Len(s)) = p

\* p in s
Contains(s, p) ==
    \E i \in 0..(Len(s) - Len(p)) : SubSeq(s, i + 1, i + Len(p)) = p

\* s[n:]
SliceFrom(s, n) ==
    SubSeq(s, n + 1, Len(s))

\* s.split(sep) for a one-character separator
RECURSIVE Split(_, _)
Split(s, sep) ==
    IF \A i \in 1..Len(s) : s[i] # sep
    THEN <<s>>
    ELSE LET k == CHOOSE i \in 1..Len(s) :
                    s[i] = sep /\ \A j \in 1..(i - 1) : s[j] # sep
         IN  <<SubSeq(s, 1, k - 1)>> \o Split(SubSeq(s, k + 1, Len(s)), sep)

\* int(c) for one decimal digit
DigitValue(c) ==
    CASE c = "0" -> 0 [] c = "1" -> 1 [] c = "2" -> 2 [] c = "3" -> 3
      [] c = "4" -> 4 [] c = "5" -> 5 [] c = "6" -> 6 [] c = "7" -> 7
      [] c = "8" -> 8 [] c = "9" -> 9

\* int(s) for a non-empty string of decimal digits (unbounded, as in Python)
RECURSIVE int(_)
int(s) ==
    IF Len(s) = 1 THEN DigitValue(s[1])
    ELSE 10 * int(SubSeq(s, 1, Len(s) - 1)) + DigitValue(s[Len(s)])

\* repr(s) of a str without quotes, backslashes or control characters
Repr(s) ==
    <<"'">> \o s \o <<"'">>

\* str(list of str): '[' + ', '.join(repr(x)) + ']'
RECURSIVE JoinRepr(_)
JoinRepr(l) ==
    IF l = <<>> THEN <<>>
    ELSE IF Len(l) = 1 THEN Repr(l[1])
    ELSE Repr(l[1]) \o <<",", " ">> \o JoinRepr(Tail(l))

ListStr(l) ==
    <<"[">> \o JoinRepr(l) \o <<"]">>

---------------------------------------------------------------------------
(* The regular expression of line 31 *)

\* '^swift-({}\.{}(\.(\d+))?)-RELEASE$'.format(major, minor)
FormatRegex(major, minor) ==
    RegexHead \o major \o RegexSep \o minor \o RegexTail

\* the text of the pattern between '^swift-(' and '(\.(\d+))?)-RELEASE$'
RegexBody(regex) ==
    SubSeq(regex, Len(RegexHead) + 1, Len(regex) - Len(RegexTail))

\* the string a pattern without operators matches: '\c' stands for c
RECURSIVE Unescape(_)
Unescape(p) ==
    IF p = <<>> THEN <<>>
    ELSE IF p[1] = "\\" /\ Len(p) >= 2
         THEN <<p[2]>> \o Unescape(SubSeq(p, 3, Len(p)))
         ELSE <<p[1]>> \o Unescape(Tail(p))

\* The branches of group 1: a '|' inside a format field splits the group
\* into alternatives, and the optional patch group belongs to the last one.
Alternatives(regex) ==
    LET parts == Split(RegexBody(regex), "|")
    IN  [i \in 1..Len(parts) |-> Unescape(parts[i])]

\* what '\.(\d+)' matches: a dot followed by one or more digits
IsPatchGroup(s) ==
    /\ Len(s) >= 2
    /\ s[1] = "."
    /\ \A i \in 2..Len(s) : s[i] \in Digits

\* re.match fails
NoMatch == [matched |-> FALSE, group1 |-> None, group2 |-> None]

\* re.match(regex, tag): the match object (groups 1 and 2), or NoMatch.
\* Alternatives are tried left to right and the first that lets the whole
\* pattern match is taken; group 2 is None when the patch group took no part.
re_match(regex, tag) ==
    LET alts == Alternatives(regex)
        n    == Len(alts)
        framed == /\ Len(tag) >= Len(SwiftDash) + Len(DashRelease)
                  /\ StartsWith(tag, SwiftDash)
                  /\ EndsWith(tag, DashRelease)
        inner == SubSeq(tag, Len(SwiftDash) + 1, Len(tag) - Len(DashRelease))
        Plain(i) == inner = alts[i]
        Patched  == /\ StartsWith(inner, alts[n])
                    /\ IsPatchGroup(SliceFrom(inner, Len(alts[n])))
        Takes(i) == IF i < n THEN Plain(i) ELSE Patched \/ Plain(n)
    IN  IF ~framed \/ ~(\E i \in 1..n : Takes(i)) THEN NoMatch
        ELSE LET i == CHOOSE k \in 1..n : Takes(k) /\ \A j \in 1..(k - 1) : ~Takes(j)
             IN  [matched |-> TRUE,
                  group1  |-> inner,
                  group2  |-> IF i = n /\ Patched
                              THEN SliceFrom(inner, Len(alts[n]))
                              ELSE None]

\* line 34: map(lambda release: release['tag_name'], release_data)
tag_names(data) ==
    [i \in 1..Len(data) |-> data[i].tag_name]

\* line 37: the match objects of the tags that match, in the order of the tags
RECURSIVE find_matches(_, _)
find_matches(regex, names) ==
    IF names = <<>> THEN <<>>
    ELSE LET m == re_match(regex, Head(names))
         IN  (IF m.matched THEN <<m>> ELSE <<>>)
                 \o find_matches(regex, Tail(names))

\* line 40: the sort key
patch_key(match) ==
    IF match.group2 # None THEN int(SliceFrom(match.group2, 1)) ELSE 0

\* line 40 without reverse=True: the smallest patch comes first
sorted_by_patch_ascending(ms) ==
    LET Before(j, i) == \/ patch_key(ms[j]) < patch_key(ms[i])
                        \/ patch_key(ms[j]) = patch_key(ms[i]) /\ j < i
        Rank(i) == 1 + Cardinality({j \in 1..Len(ms) : Before(j, i)})
    IN  [r \in 1..Len(ms) |-> ms[CHOOSE i \in 1..Len(ms) : Rank(i) = r]]

\* line 40 as sorted(ms, key=patch_key)[::-1]: equal keys change places
sorted_by_patch_reversed(ms) ==
    LET Before(j, i) == \/ patch_key(ms[j]) > patch_key(ms[i])
                        \/ patch_key(ms[j]) = patch_key(ms[i]) /\ j > i
        Rank(i) == 1 + Cardinality({j \in 1..Len(ms) : Before(j, i)})
    IN  [r \in 1..Len(ms) |-> ms[CHOOSE i \in 1..Len(ms) : Rank(i) = r]]

\* line 40: sorted(ms, key=patch_key, reverse=True).  Python's sort is stable
\* also with reverse=True: elements with equal keys keep their order.
sorted_by_patch(ms) ==
    LET Before(j, i) == \/ patch_key(ms[j]) > patch_key(ms[i])
                        \/ patch_key(ms[j]) = patch_key(ms[i]) /\ j < i
        Rank(i) == 1 + Cardinality({j \in 1..Len(ms) : Before(j, i)})
    IN  [r \in 1..Len(ms) |-> ms[CHOOSE i \in 1..Len(ms) : Rank(i) = r]]

\* line 43: map(lambda match: match.group(1), sorted_matches)
version_numbers(ms) ==
    [i \in 1..Len(ms) |-> ms[i].group1]

\* line 20 yielding the marked tags last to first
RECURSIVE snapshot_tags_last_first(_)
snapshot_tags_last_first(data) ==
    IF data = <<>> THEN <<>>
    ELSE snapshot_tags_last_first(Tail(data))
            \o (IF Contains(Head(data).name, SnapshotMarker)
                THEN <<Head(data)>> ELSE <<>>)

\* line 20 with the marker 'DEVELOPMENT-SNAPSHOT', its 'swift-' left out
RECURSIVE snapshot_tags_short_marker(_)
snapshot_tags_short_marker(data) ==
    IF data = <<>> THEN <<>>
    ELSE (IF Contains(Head(data).name, SliceFrom(SnapshotMarker, 6))
          THEN <<Head(data)>> ELSE <<>>)
            \o snapshot_tags_short_marker(Tail(data))

\* line 20: filter(lambda tag: 'swift-DEVELOPMENT-SNAPSHOT' in tag['name'], ..)
RECURSIVE snapshot_tags(_)
snapshot_tags(data) ==
    IF data = <<>> THEN <<>>
    ELSE (IF Contains(Head(data).name, SnapshotMarker)
          THEN <<Head(data)>> ELSE <<>>) \o snapshot_tags(Tail(data))

---------------------------------------------------------------------------
(* Inputs of the resolver: command lines and endpoint responses *)

\* sys.argv[0]
ScriptName == <<"g", "e", "t", "_", "l", "a", "t", "e", "s", "t", ".", "p", "y">>

\* the first argument of the command line, when there is exactly one
Specifiers ==
    { MainSnapshot,
      <<"5", ".", "2">>,   \* '5.2'
      <<"5", ".", "3">>,   \* '5.3'
      <<"9", ".", "9">>,   \* '9.9'
      <<"5">>,   \* '5'
      <<"5", ".", "2", ".", "1">>,   \* '5.2.1'
      <<"a", ".", "b">>,   \* 'a.b'
      <<"5", ".", "x">>,   \* '5.x'
      <<"5", ".", "2", "|", "5">>    \* '5.2|5'
    }

\* the command lines: no argument, one argument, two arguments
ArgLists ==
    {<<ScriptName>>}
        \cup {<<ScriptName, a>> : a \in Specifiers}
        \cup {<<ScriptName, <<"5", ".", "2">>, b>> : b \in {MainSnapshot, <<"5", ".", "3">>}}

\* tag_name values the release-listing endpoint can return
ReleaseTagNames ==
    { SwiftDash \o <<"5", ".", "2">> \o DashRelease,
      SwiftDash \o <<"5", ".", "2", ".", "0">> \o DashRelease,
      SwiftDash \o <<"5", ".", "2", ".", "1">> \o DashRelease,
      SwiftDash \o <<"5", ".", "2", ".", "3">> \o DashRelease,
      SwiftDash \o <<"5", ".", "2", ".", "0", "3">> \o DashRelease,
      SwiftDash \o <<"5", ".", "2", ".", "1", "0">> \o DashRelease,
      SwiftDash \o <<"5", ".", "3", ".", "0">> \o DashRelease,
      SwiftDash \o <<"5", ".", "2", "1">> \o DashRelease,
      SwiftDash \o <<"1", "5", ".", "2">> \o DashRelease,
      SwiftDash \o <<"5", ".", "2", "x">> \o DashRelease,
      <<"5", ".", "2">> \o DashRelease,       \* no 'swift-' prefix
      SwiftDash \o <<"5", ".", "2">> }        \* no '-RELEASE' suffix

\* name values the tag-listing endpoint can return
TagNames ==
    { SnapshotMarker \o <<"-", "2", "0", "2", "3", "-", "0", "1", "-", "0", "1", "-", "a">>,
      SnapshotMarker \o <<"-", "2", "0", "2", "3", "-", "0", "1", "-", "0", "2", "-", "a">>,
      <<"o", "l", "d", "-">> \o SnapshotMarker \o <<"-", "1">>,
      SwiftDash \o <<"5", ".", "9", "-", "D", "E", "V", "E", "L", "O", "P", "M", "E", "N", "T", "-", "S", "N", "A", "P", "S", "H", "O", "T", "-", "1">>,
      SwiftDash \o <<"5", ".", "2">> \o DashRelease }

\* the sequences over S of length at most n
SeqsUpTo(S, n) ==
    UNION {[1..k -> S] : k \in 0..n}

\* decoded JSON arrays of the two endpoints
TagListings ==
    SeqsUpTo({[name |-> t] : t \in TagNames}, MaxTags)

ReleaseListings ==
    SeqsUpTo({[tag_name |-> t] : t \in ReleaseTagNames}, MaxReleases)

---------------------------------------------------------------------------
(* The resolver, get_latest_swift_patch.py, statement by statement *)

\* the process ends with the given status
Exit(code) ==
    /\ pc' = "exited"
    /\ exit_status' = <<code>>

\* an exception nobody catches: traceback on stderr, status 1
Raise(exc) ==
    /\ exception' = exc
    /\ Exit(1)

\* print(line)
print(line) ==
    stdout' = Append(stdout, line)

\* lines 12-14
CheckArgc ==
    /\ pc = "line12"
    /\ IF Len(argv) # 2
       THEN /\ print(ArgcMessage \o ListStr(Tail(argv)))
            /\ Exit(1)
            /\ UNCHANGED exception
       ELSE /\ pc' = "line16"
            /\ UNCHANGED <<stdout, exit_status, exception>>
    /\ UNCHANGED <<argv, version, version_regex, requests, tag_data,
                   release_data, matches, sorted_matches>>

\* lines 16-18 and 22
ReadVersion ==
    /\ pc = "line16"
    /\ version' = argv[2]
    /\ pc' = IF version' = MainSnapshot THEN "line19" ELSE "line23"
    /\ UNCHANGED <<argv, version_regex, requests, tag_data, release_data,
                   matches, sorted_matches, stdout, exception, exit_status>>

\* line 19: requests.get(tags).json() returns an array, or the request fails
FetchTags ==
    /\ pc = "line19"
    /\ requests' = Append(requests, TagsUrl)
    /\ \/ /\ tag_data' \in TagListings
          /\ pc' = "line20"
          /\ UNCHANGED <<exception, exit_status>>
       \/ /\ Raise("ConnectionError")
          /\ UNCHANGED tag_data
    /\ UNCHANGED <<argv, version, version_regex, release_data, matches,
                   sorted_matches, stdout>>

\* lines 20-21: next() of an exhausted filter raises StopIteration
PrintSnapshot ==
    /\ pc = "line20"
    /\ LET found == snapshot_tags(tag_data)
       IN  IF found = <<>>
           THEN /\ Raise("StopIteration")
                /\ UNCHANGED stdout
           ELSE /\ print(SliceFrom(Head(found).name, 6))
                /\ Exit(0)
                /\ UNCHANGED exception
    /\ UNCHANGED <<argv, version, version_regex, requests, tag_data,
                   release_data, matches, sorted_matches>>

\* lines 23-31
BuildRegex ==
    /\ pc = "line23"
    /\ LET components == Split(version, ".")
       IN  IF Len(components) # 2
           THEN /\ print(FormMessage \o version)
                /\ Exit(1)
                /\ UNCHANGED <<version_regex, exception>>
           ELSE /\ version_regex' = FormatRegex(components[1], components[2])
                /\ pc' = "line33"
                /\ UNCHANGED <<stdout, exit_status, exception>>
    /\ UNCHANGED <<argv, version, requests, tag_data, release_data, matches,
                   sorted_matches>>

\* line 33 reading the URL of line 19
FetchReleasesFromTagsUrl ==
    /\ pc = "line33"
    /\ requests' = Append(requests, TagsUrl)
    /\ \/ /\ release_data' \in ReleaseListings
          /\ pc' = "line34"
          /\ UNCHANGED <<exception, exit_status>>
       \/ /\ Raise("ConnectionError")
          /\ UNCHANGED release_data
    /\ UNCHANGED <<argv, version, version_regex, tag_data, matches,
                   sorted_matches, stdout>>

\* line 33: requests.get(releases).json() returns an array, or the request fails
FetchReleases ==
    /\ pc = "line33"
    /\ requests' = Append(requests, ReleasesUrl)
    /\ \/ /\ release_data' \in ReleaseListings
          /\ pc' = "line34"
          /\ UNCHANGED <<exception, exit_status>>
       \/ /\ Raise("ConnectionError")
          /\ UNCHANGED release_data
    /\ UNCHANGED <<argv, version, version_regex, tag_data, matches,
                   sorted_matches, stdout>>

\* lines 34-37
MatchTags ==
    /\ pc = "line34"
    /\ matches' = find_matches(version_regex, tag_names(release_data))
    /\ pc' = "line40"
    /\ UNCHANGED <<argv, version, version_regex, requests, tag_data,
                   release_data, sorted_matches, stdout, exception,
                   exit_status>>

\* line 40: sorted() runs the filter object of line 37 to its end, so the
\* name matches yields nothing from here on
SortMatches ==
    /\ pc = "line40"
    /\ sorted_matches' = sorted_by_patch(matches)
    /\ matches' = <<>>
    /\ pc' = "line43"
    /\ UNCHANGED <<argv, version, version_regex, requests, tag_data,
                   release_data, stdout, exception, exit_status>>

\* lines 43-44: next() of an exhausted map raises StopIteration
PrintLatest ==
    /\ pc = "line43"
    /\ LET sorted_version_numbers == version_numbers(sorted_matches)
       IN  IF sorted_version_numbers = <<>>
           THEN /\ Raise("StopIteration")
                /\ UNCHANGED stdout
           ELSE /\ print(Head(sorted_version_numbers))
                /\ Exit(0)
                /\ UNCHANGED exception
    /\ UNCHANGED <<argv, version, version_regex, requests, tag_data,
                   release_data, matches, sorted_matches>>

\* the state of update-index.py while the resolver is the program run
IndexIdle ==
    /\ docs = <<>>
    /\ dirs = <<>>
    /\ pos = 1
    /\ first = TRUE
    /\ index_md = <<>>
    /\ ipc = "idle"

Init ==
    /\ argv \in ArgLists
    /\ pc = "line12"
    /\ version = None
    /\ version_regex = None
    /\ requests = <<>>
    /\ tag_data = <<>>
    /\ release_data = <<>>
    /\ matches = <<>>
    /\ sorted_matches = <<>>
    /\ stdout = <<>>
    /\ exception = ""
    /\ exit_status = <<>>
    /\ IndexIdle

Next ==
    \/ CheckArgc /\ UNCHANGED indexVars
    \/ ReadVersion /\ UNCHANGED indexVars
    \/ FetchTags /\ UNCHANGED indexVars
    \/ PrintSnapshot /\ UNCHANGED indexVars
    \/ BuildRegex /\ UNCHANGED indexVars
    \/ FetchReleases /\ UNCHANGED indexVars
    \/ MatchTags /\ UNCHANGED indexVars
    \/ SortMatches /\ UNCHANGED indexVars
    \/ PrintLatest /\ UNCHANGED indexVars

Spec == Init /\ [][Next]_vars

---------------------------------------------------------------------------
(* update-index.py *)

\* '# MongoSwift Documentation Index\n'
IndexHeader ==
    <<"#", " ", "M", "o", "n", "g", "o", "S", "w", "i", "f", "t", " ", "D",
    "o", "c", "u", "m", "e", "n", "t", "a", "t", "i", "o", "n", " ", "I",
    "n", "d", "e", "x", "\n">>

\* '- [{}]({}/MongoSwift/index.html)\n' cut at its two format fields
EntryOpen == <<"-", " ", "[">>

EntryMid == <<"]", "(">>

EntryClose ==
    <<"/", "M", "o", "n", "g", "o", "S", "w", "i", "f", "t", "/", "i", "n",
    "d", "e", "x", ".", "h", "t", "m", "l", ")", "\n">>

\* ' (current)'
CurrentLabel == <<" ", "(", "c", "u", "r", "r", "e", "n", "t", ")">>

\* 'current'
CurrentDir == <<"c", "u", "r", "r", "e", "n", "t">>

\* 'index.md', the file name of './docs/index.md'
IndexMd == <<"i", "n", "d", "e", "x", ".", "m", "d">>

\* the ASCII characters ' ' (32) to '_' (95), in code order
AsciiFrom32 ==
    <<" ", "!", "\"", "#", "$", "%", "&", "'", "(", ")", "*", "+", ",", "-",
      ".", "/", "0", "1", "2", "3", "4", "5", "6", "7", "8", "9", ":", ";",
      "<", "=", ">", "?", "@", "A", "B", "C", "D", "E", "F", "G", "H", "I",
      "J", "K", "L", "M", "N", "O", "P", "Q", "R", "S", "T", "U", "V", "W",
      "X", "Y", "Z", "[", "\\", "]", "^", "_">>

\* the ASCII characters 'a' (97) to '~' (126), in code order
AsciiFrom97 ==
    <<"a", "b", "c", "d", "e", "f", "g", "h", "i", "j", "k", "l", "m", "n",
      "o", "p", "q", "r", "s", "t", "u", "v", "w", "x", "y", "z", "{", "|",
      "}", "~">>

\* ord(c)
ord(c) ==
    IF \E i \in 1..Len(AsciiFrom32) : AsciiFrom32[i] = c
    THEN 31 + CHOOSE i \in 1..Len(AsciiFrom32) : AsciiFrom32[i] = c
    ELSE 96 + CHOOSE i \in 1..Len(AsciiFrom97) : AsciiFrom97[i] = c

\* a < b on str: by code point, a proper prefix being smaller
StrLess(a, b) ==
    \E k \in 1..Len(b) :
        /\ \A j \in 1..(k - 1) : j <= Len(a) /\ a[j] = b[j]
        /\ \/ k = Len(a) + 1
           \/ k <= Len(a) /\ ord(a[k]) < ord(b[k])

\* c.isdigit() for one ASCII character
isdigit(c) ==
    c \in Digits

\* '- [{}]({}/MongoSwift/index.html)\n'.format(version_str, dir)
FormatEntry(version_str, dir) ==
    EntryOpen \o version_str \o EntryMid \o dir \o EntryClose

\* line 7: sorted(names, reverse=True), stable as every Python sort
sorted_reverse(names) ==
    LET Before(j, i) == \/ StrLess(names[i], names[j])
                        \/ names[j] = names[i] /\ j < i
        Rank(i) == 1 + Cardinality({j \in 1..Len(names) : Before(j, i)})
    IN  [r \in 1..Len(names) |->
            names[CHOOSE i \in 1..Len(names) : Rank(i) = r]]

\* names an entry of ./docs can have besides index.md
DocNames ==
    { <<"0", ".", "9", ".", "1">>,
      <<"1", ".", "0", ".", "0">>,
      <<"1", ".", "0", ".", "0", "-", "r", "c", "0">>,
      <<"2", ".", "0", ".", "0">>,
      <<"1", "0", ".", "0", ".", "0">>,
      <<"c", "u", "r", "r", "e", "n", "t">>,
      <<"R", "E", "A", "D", "M", "E", ".", "m", "d">> }

\* the orders in which os.listdir can return the entries S
Orders(S) ==
    {l \in [1..Cardinality(S) -> S] : \A n \in S : \E i \in DOMAIN l : l[i] = n}

\* lines 4-5: open(..., 'w') creates or truncates index.md; the header
WriteHeader ==
    /\ ipc = "line4"
    /\ docs' = docs \cup {IndexMd}
    /\ index_md' = <<IndexHeader>>
    /\ ipc' = "line7"
    /\ UNCHANGED <<dirs, pos, first>>

\* line 7: the loop iterates over sorted(os.listdir('./docs'), reverse=True)
ListDocs ==
    /\ ipc = "line7"
    /\ \E listing \in Orders(docs) : dirs' = sorted_reverse(listing)
    /\ pos' = 1
    /\ ipc' = "line8"
    /\ UNCHANGED <<docs, first, index_md>>

\* lines 8-9: an entry that does not start with a digit is skipped
SkipEntry ==
    /\ ipc = "line8"
    /\ pos <= Len(dirs)
    /\ ~isdigit(dirs[pos][1])
    /\ pos' = pos + 1
    /\ UNCHANGED <<docs, dirs, first, index_md, ipc>>

\* lines 8-17 without line 15: first stays True
WriteEntryKeepFirst ==
    /\ ipc = "line8"
    /\ pos <= Len(dirs)
    /\ isdigit(dirs[pos][1])
    /\ LET dir == dirs[pos]
       IN  IF first
           THEN index_md' = Append(index_md,
                        FormatEntry(dir \o CurrentLabel, CurrentDir))
           ELSE index_md' = Append(index_md, FormatEntry(dir, dir))
    /\ pos' = pos + 1
    /\ UNCHANGED <<docs, dirs, ipc, first>>

\* lines 8-17 for an entry that starts with a digit
WriteEntry ==
    /\ ipc = "line8"
    /\ pos <= Len(dirs)
    /\ isdigit(dirs[pos][1])
    /\ LET dir == dirs[pos]
       IN  IF first
           THEN /\ index_md' = Append(index_md,
                        FormatEntry(dir \o CurrentLabel, CurrentDir))
                /\ first' = FALSE
           ELSE /\ index_md' = Append(index_md, FormatEntry(dir, dir))
                /\ UNCHANGED first
    /\ pos' = pos + 1
    /\ UNCHANGED <<docs, dirs, ipc>>

\* the loop is over and the with block closes the file
CloseIndex ==
    /\ ipc = "line8"
    /\ pos > Len(dirs)
    /\ ipc' = "done"
    /\ UNCHANGED <<docs, dirs, pos, first, index_md>>

\* the state of the resolver while update-index.py is the program run
ResolverIdle ==
    /\ argv = <<>>
    /\ pc = "idle"
    /\ version = None
    /\ version_regex = None
    /\ requests = <<>>
    /\ tag_data = <<>>
    /\ release_data = <<>>
    /\ matches = <<>>
    /\ sorted_matches = <<>>
    /\ stdout = <<>>
    /\ exception = ""
    /\ exit_status = <<>>

\* ./docs holds any entries, index.md of an earlier run possibly among them
InitIndex ==
    /\ \E S \in SUBSET DocNames, old \in SUBSET {IndexMd} :
          /\ Cardinality(S) <= MaxDocs
          /\ docs = S \cup old
    /\ dirs = <<>>
    /\ pos = 1
    /\ first = TRUE
    /\ index_md = <<>>
    /\ ipc = "line4"
    /\ ResolverIdle

NextIndex ==
    \/ WriteHeader /\ UNCHANGED resolverVars
    \/ ListDocs /\ UNCHANGED resolverVars
    \/ SkipEntry /\ UNCHANGED resolverVars
    \/ WriteEntry /\ UNCHANGED resolverVars
    \/ CloseIndex /\ UNCHANGED resolverVars

SpecIndex == InitIndex /\ [][NextIndex]_vars

---------------------------------------------------------------------------
(* Vocabulary of the properties, independent of the regular expression *)

\* a non-empty string of decimal digits
IsNumeric(s) ==
    Len(s) >= 1 /\ \A i \in 1..Len(s) : s[i] \in Digits

\* "MAJOR.MINOR" with numeric components
IsMajorMinor(v) ==
    \E k \in 1..Len(v) :
        /\ v[k] = "."
        /\ IsNumeric(SubSeq(v, 1, k - 1))
        /\ IsNumeric(SubSeq(v, k + 1, Len(v)))

\* d is ver itself or ver followed by '.PATCH'
IsDottedOf(d, ver) ==
    \/ d = ver
    \/ /\ StartsWith(d, ver \o <<".">>)
       /\ IsNumeric(SliceFrom(d, Len(ver) + 1))

\* the patch number of a dotted version of ver, 0 when it has no patch
PatchOf(d, ver) ==
    IF d = ver THEN 0 ELSE int(SliceFrom(d, Len(ver) + 1))

\* the dotted version embedded in a tag of the form swift-<dotted>-RELEASE
Embedded(tag) ==
    SubSeq(tag, Len(SwiftDash) + 1, Len(tag) - Len(DashRelease))

\* tag is swift-ver[.PATCH]-RELEASE
IsReleaseOf(tag, ver) ==
    /\ Len(tag) >= Len(SwiftDash) + Len(DashRelease)
    /\ tag = SwiftDash \o Embedded(tag) \o DashRelease
    /\ IsDottedOf(Embedded(tag), ver)

\* positions in the release listing of the tags of version ver
Candidates(ver) ==
    {i \in 1..Len(release_data) : IsReleaseOf(release_data[i].tag_name, ver)}

\* the patch number of the tag at position i
PatchAt(i, ver) ==
    PatchOf(Embedded(release_data[i].tag_name), ver)

\* positions of the candidates no other candidate has a greater patch than
Greatest(ver) ==
    {i \in Candidates(ver) :
        \A j \in Candidates(ver) : PatchAt(j, ver) <= PatchAt(i, ver)}

\* positions in the tag listing of the tags that contain the snapshot marker
Marked ==
    {i \in 1..Len(tag_data) : Contains(tag_data[i].name, SnapshotMarker)}

\* the least element of a non-empty set of positions
Least(S) ==
    CHOOSE i \in S : \A j \in S : i <= j

\* the run has ended
Exited == pc = "exited"

\* the run took the numbered path and the release listing came back
ReleasesReturned ==
    /\ Len(argv) = 2
    /\ requests = <<ReleasesUrl>>
    /\ pc \in {"line34", "line40", "line43", "exited"}
    /\ exception # "ConnectionError"

\* the run took the snapshot path and the tag listing came back
TagsReturned ==
    /\ Len(argv) = 2
    /\ argv[2] = MainSnapshot
    /\ requests = <<TagsUrl>>
    /\ pc \in {"line20", "exited"}
    /\ exception # "ConnectionError"

V52 == <<"5", ".", "2">>

Rel(d) == [tag_name |-> SwiftDash \o d \o DashRelease]

Snapshot20230101 == SnapshotMarker \o <<"-", "2", "0", "2", "3", "-", "0", "1", "-", "0", "1", "-", "a">>

Snapshot20230102 == SnapshotMarker \o <<"-", "2", "0", "2", "3", "-", "0", "1", "-", "0", "2", "-", "a">>

---------------------------------------------------------------------------
(* Properties *)

\* C1: on the numbered path with a numeric MAJOR.MINOR specifier and a
\* release listing holding at least one tag swift-MAJOR.MINOR[.PATCH]-RELEASE,
\* the run ends with status 0 and exactly one printed line, which is the
\* dotted version embedded in one of those tags (patch-less if the tag is)
\* whose patch number, 0 when absent, is the greatest among them.
C1_LatestPatchPrinted ==
    (Exited /\ ReleasesReturned /\ IsMajorMinor(argv[2])
            /\ Candidates(argv[2]) # {})
    => /\ exit_status = <<0>>
       /\ Len(stdout) = 1
       /\ \E i \in Greatest(argv[2]) :
              stdout[1] = Embedded(release_data[i].tag_name)

\* specifier 5.2 against a patch-less tag, patch 3 and patch 10: 5.2.10 wins
C1_Witness ==
    /\ Exited
    /\ version = V52
    /\ release_data = <<Rel(V52), Rel(V52 \o <<".", "1", "0">>),
                        Rel(V52 \o <<".", "3">>)>>
    /\ stdout = <<V52 \o <<".", "1", "0">>>>

\* C2 (as claimed): on the numbered path, when no tag of the release listing
\* matches, the run ends with a non-zero status, one printed message that
\* names the specifier, and no uncaught exception.
C2_ExplicitNotFound ==
    (Exited /\ ReleasesReturned
            /\ \A i \in 1..Len(release_data) :
                   ~re_match(version_regex, release_data[i].tag_name).matched)
    => /\ exit_status # <<0>>
       /\ exception = ""
       /\ Len(stdout) = 1
       /\ Contains(stdout[1], version)

\* C3 (as claimed): with an argument count other than one, or a specifier
\* other than main-snapshot that is not two numeric components, no request
\* is ever made, and the run ends with status 1 and one diagnostic line.
C3_InvalidBeforeFetch ==
    (\/ Len(argv) # 2
     \/ argv[2] # MainSnapshot /\ ~IsMajorMinor(argv[2]))
    => /\ requests = <<>>
       /\ Exited => exit_status = <<1>> /\ Len(stdout) = 1

\* C4 (as claimed): on the snapshot path the printed line is the name of the
\* first tag that contains the marker with the marker prefix stripped, so
\* swift-DEVELOPMENT-SNAPSHOT-2023-01-01-a prints 2023-01-01-a.
C4_MarkerStripped ==
    (Exited /\ TagsReturned /\ Marked # {}
            /\ StartsWith(tag_data[Least(Marked)].name,
                          SnapshotMarker \o <<"-">>))
    => stdout = <<SliceFrom(tag_data[Least(Marked)].name,
                            Len(SnapshotMarker) + 1)>>

\* C4 (amended): on the snapshot path with a tag listing holding at least one
\* name that contains the marker, the run ends with status 0 and exactly one
\* printed line: the name of the first such tag in the order of the listing
\* without its first six characters (the 'swift-' of the marker), so
\* swift-DEVELOPMENT-SNAPSHOT-2023-01-01-a prints
\* DEVELOPMENT-SNAPSHOT-2023-01-01-a.
C4_FirstSnapshotPrinted ==
    (Exited /\ TagsReturned /\ Marked # {})
    => /\ exit_status = <<0>>
       /\ stdout = <<SliceFrom(tag_data[Least(Marked)].name, 6)>>

\* two snapshots, the older one listed first and after an unmarked tag
C4_Witness ==
    /\ Exited
    /\ tag_data = <<[name |-> SwiftDash \o V52 \o DashRelease],
                    [name |-> Snapshot20230101],
                    [name |-> Snapshot20230102]>>
    /\ stdout = <<SliceFrom(Snapshot20230101, 6)>>

\* C5: on the numbered path with a numeric specifier, when several tags of
\* the version share the greatest patch number, the printed version is the
\* one embedded in the tied tag that comes first in the release listing.
C5_TieKeepsListingOrder ==
    (Exited /\ ReleasesReturned /\ IsMajorMinor(argv[2])
            /\ Cardinality(Greatest(argv[2])) >= 2)
    => stdout = <<Embedded(release_data[Least(Greatest(argv[2]))].tag_name)>>

\* patches 03 and 3 tie above patch 1; 03 is listed before 3
C5_Witness ==
    /\ Exited
    /\ version = V52
    /\ release_data = <<Rel(V52 \o <<".", "1">>),
                        Rel(V52 \o <<".", "0", "3">>),
                        Rel(V52 \o <<".", "3">>)>>
    /\ stdout = <<V52 \o <<".", "0", "3">>>>

\* C6 (as claimed): for every specifier the numbered path accepts, every
\* candidate kept and every version printed is the specifier text itself,
\* followed by nothing or by '.PATCH'.
C6_ExactMajorMinor ==
    (ReleasesReturned /\ pc \in {"line40", "line43", "exited"})
    => /\ \A i \in 1..Len(matches) : IsDottedOf(matches[i].group1, version)
       /\ \A i \in 1..Len(sorted_matches) :
              IsDottedOf(sorted_matches[i].group1, version)
       /\ \A i \in 1..Len(stdout) : IsDottedOf(stdout[i], version)

\* C7: on the snapshot path with a tag listing in which no name contains the
\* marker, nothing is ever printed and the run can only end with status 1
\* and an uncaught exception.
C7_NoSnapshotFails ==
    (TagsReturned /\ Marked = {})
    => /\ stdout = <<>>
       /\ Exited => exit_status = <<1>> /\ exception = "StopIteration"

\* a non-empty tag listing without the marker ends the run in StopIteration
C7_Witness ==
    /\ Exited
    /\ TagsReturned
    /\ Len(tag_data) >= 2
    /\ Marked = {}
    /\ exception = "StopIteration"

\* C8, the state part: at most one request per run; a run that ended with
\* status 0 made exactly one request, to the endpoint of its path, and
\* printed exactly one line.
C8_OneRequestOneLine ==
    /\ Len(requests) <= 1
    /\ (Exited /\ exit_status = <<0>>)
       => /\ Len(stdout) = 1
          /\ requests = <<IF argv[2] = MainSnapshot
                          THEN TagsUrl ELSE ReleasesUrl>>

\* C8: the state part always holds, and a step that prints and ends with
\* status 0 starts in a state where the request has been made and answered.
C8_SideEffects ==
    /\ []C8_OneRequestOneLine
    /\ [][(stdout' # stdout /\ exit_status' = <<0>>)
            => (TagsReturned \/ ReleasesReturned)]_vars

\* a successful run of the numbered path
C8_Witness ==
    /\ Exited
    /\ exit_status = <<0>>
    /\ version = V52
    /\ requests = <<ReleasesUrl>>
    /\ Len(release_data) >= 2
    /\ Len(stdout) = 1

\* names of ./docs that start with a digit
VersionDirs ==
    {n \in docs : n[1] \in Digits}

\* place of a version directory in descending string order
PlaceOf(n) ==
    1 + Cardinality({m \in VersionDirs : StrLess(n, m)})

\* the entry line the index is to hold for a version directory
EntryOf(n) ==
    IF PlaceOf(n) = 1
    THEN EntryOpen \o n \o CurrentLabel \o EntryMid \o CurrentDir \o EntryClose
    ELSE EntryOpen \o n \o EntryMid \o n \o EntryClose

\* C10, the state part: the finished index is the header followed by one
\* line per version directory, in descending string order, the first one
\* labelled '(current)' and linking to 'current', the others labelled by and
\* linking to their own name; first is False iff a line was written.
C10_IndexContent ==
    ipc = "done"
    => /\ Len(index_md) = 1 + Cardinality(VersionDirs)
       /\ index_md[1] = IndexHeader
       /\ \A n \in VersionDirs : index_md[1 + PlaceOf(n)] = EntryOf(n)
       /\ first = (VersionDirs = {})

\* C10: the state part always holds, and first never goes back to True.
C10_Index ==
    /\ []C10_IndexContent
    /\ [][~first => ~first']_vars

\* three version directories whose string order differs from their numeric
\* order, next to index.md, which is skipped
C10_Witness ==
    /\ ipc = "done"
    /\ Cardinality(VersionDirs) = 3
    /\ <<"1", "0", ".", "0", ".", "0">> \in VersionDirs
    /\ <<"2", ".", "0", ".", "0">> \in VersionDirs
    /\ Len(index_md) = 4
    /\ index_md[2] = EntryOpen \o <<"2", ".", "0", ".", "0">> \o CurrentLabel
                        \o EntryMid \o CurrentDir \o EntryClose

====
